---------------------------- MODULE Spec2Model ----------------------------
(***************************************************************************)
(* A model of LindbladMasterEq.py: the beam class, the density-matrix      *)
(* coordinate ordering (matrix2list), and the atomicSystem class with its  *)
(* master-equation assembly, linear system and solve/propagation methods.  *)
(*                                                                         *)
(* Numbers.  Real quantities are exact rationals <<num, den>>.  A          *)
(* non-negative real that the code obtains with a square root (a field     *)
(* amplitude, a diameter) is carried by its square, [sq |-> rational]:     *)
(* np.sqrt builds it, **2 reads it.  Floating-point rounding is not        *)
(* modelled.  Units absorb the physical constants: areas are in units of   *)
(* pi/4 length^2, squared amplitudes in units of 1/(c*epsilon_0).          *)
(***************************************************************************)
EXTENDS Integers, Sequences, FiniteSets, TLC

VARIABLES
    \* ---- beam objects (class beam) ----
    bm_kwargs,      \* keyword arguments of the last beam(...) call
    bm_obj,         \* <<beam>> when the constructor returned, <<>> otherwise
    bm_err,         \* the exception the last beam(...) call raised, or ""
    bm_log,         \* warnings the last beam(...) call logged
    bm_by,          \* "P" / "E": the setter that last completed on bm_obj
    bm_back,        \* <<beam>> rebuilt from bm_obj's amplitude, or <<>>
    \* ---- matrix2list and the index lists built from it ----
    ml_n,           \* sublevel counts <<n_g, n_e>> of the matrix at hand
    ml_mat,         \* the N x N matrix handed to matrix2list
    ml_kind,        \* "symbols" or "mask": what the entries of ml_mat are
    ml_out,         \* <<list>> returned by matrix2list, or <<>>
    ml_sel,         \* <<[pop, chi]>>: coordinates solve sums, or <<>>
    \* ---- Lindblad_decay on a rate matrix of its own ----
    ld_N,           \* the number of levels
    ld_rates,       \* the N x N rate matrix handed to Lindblad_decay
    ld_L,           \* <<L>> returned by Lindblad_decay, or <<>>
    \* ---- one atomicSystem instance (self) ----
    self_inst,            \* <<its plain attributes>>, <<>> when there is none
    self_master_equation, \* <<self.master_equation>>
    self_system_matrix,   \* <<self.system_matrix>>
    self_A,               \* <<self.A>>: the coefficients the evaluator compiles
    self_b,               \* <<self.b>>
    last_call,            \* the last call made: its name and arguments
    last_ret,             \* <<value>> the last call returned, <<>> if it raised
    last_err,             \* the exception that left the last call, or ""
    last_log              \* the warnings the last call logged

beam_vars == <<bm_kwargs, bm_obj, bm_err, bm_log, bm_by, bm_back>>
m2l_vars  == <<ml_n, ml_mat, ml_kind, ml_out, ml_sel>>
sys_vars  == <<self_inst, self_master_equation, self_system_matrix,
               self_A, self_b>>
call_vars == <<last_call, last_ret, last_err, last_log>>
ld_vars   == <<ld_N, ld_rates, ld_L>>
vars      == <<beam_vars, m2l_vars, sys_vars, call_vars, ld_vars>>

None    == <<>>
Some(x) == <<x>>

-----------------------------------------------------------------------------
(* Bounds of the model *)

MaxP   == 2     \* beam powers 0..MaxP
MaxA   == 2     \* beam areas and diameters 1..MaxA
MaxAmp == 2     \* beam amplitudes 0..MaxAmp given as E
MaxSub == 2     \* sublevels per manifold, 1..MaxSub, for the index lists
MaxSpeed == 1   \* mean speeds 1..MaxSpeed handed to update_transit
NSamples == 2   \* velocity samples of the 'integral' treatment (25 in the code)
DopplerSpan == 2 \* half width of the Doppler velocity grid (1000 in the code)
MaxSteps == 2
MaxLevels == 2   \* propagation steps 1..MaxSteps

-----------------------------------------------------------------------------
(* Exact rational arithmetic *)

RECURSIVE Gcd(_, _)
Gcd(a, b) == IF b = 0 THEN a ELSE Gcd(b, a % b)

Abs(x) == IF x < 0 THEN -x ELSE x

RNorm(n, d) ==
    LET s == IF d < 0 THEN -1 ELSE 1
        g == Gcd(Abs(n), Abs(d))
    IN  <<(s * n) \div g, (s * d) \div g>>

R(n)       == <<n, 1>>
\* sums go through the least common denominator, which keeps the integers
\* small when both terms are multiples of the same small rate
RAdd(x, y) ==
    LET g == Gcd(x[2], y[2])
    IN  RNorm(x[1] * (y[2] \div g) + y[1] * (x[2] \div g),
              (x[2] \div g) * y[2])
RNeg(x)    == <<-x[1], x[2]>>
RSub(x, y) == RAdd(x, RNeg(y))
RMul(x, y) == RNorm(x[1] * y[1], x[2] * y[2])
RDiv(x, y) == RNorm(x[1] * y[2], x[2] * y[1])

\* np.sqrt of a non-negative real, and the square of such a root
Sqrt(x)    == [sq |-> x]
Square(r)  == r.sq
\* a plain non-negative number used where the code may also hold a root
AsRoot(x)  == [sq |-> RMul(x, x)]

-----------------------------------------------------------------------------
(* class beam *)

Has(kw, k) == k \in DOMAIN kw

Profiles == {"flat", "gaussian"}

\* beam.setE: the power that belongs to amplitude E over area self.A
setE(self, E) ==
    [err  |-> "",
     self |-> [self EXCEPT !.E = E,
                           !.P = RMul(RDiv(self.A, R(4)), Square(E))]]

\* beam.setP: the amplitude that belongs to power P under self.profile;
\* self.P is assigned before the profile is looked at
setP(self, P) ==
    LET s1 == [self EXCEPT !.P = P]
    IN  IF self.profile = "flat"
        THEN [err  |-> "",
              self |-> [s1 EXCEPT !.E = Sqrt(RMul(R(2), RDiv(P, self.A)))]]
        ELSE IF self.profile = "gaussian"
        THEN [err  |-> "",
              self |-> [s1 EXCEPT
                          !.E = Sqrt(RMul(R(2), RDiv(RMul(R(2), P), self.A)))]]
        ELSE [err |-> "KeyError", self |-> s1]

\* the fields a beam holds before its power and amplitude are set
BlankBeam(w, profile, D, A) ==
    [w |-> w, profile |-> profile, D |-> D, A |-> A,
     P |-> R(0), E |-> Sqrt(R(0))]

\* beam.__init__(**kwargs): [err, obj, log]; obj is <<beam>> when no
\* exception left the constructor
beam(kw) ==
    LET log     == IF Has(kw, "profile") THEN <<>>
                   ELSE <<"Use Gaussian intensity profile">>
        profile == IF Has(kw, "profile") THEN kw["profile"] ELSE "gaussian"
        fail    == [err |-> "KeyError", obj |-> None, log |-> log]
    IN  IF ~Has(kw, "w") THEN [err |-> "KeyError", obj |-> None, log |-> <<>>]
        ELSE IF ~Has(kw, "D") /\ ~Has(kw, "A") THEN fail
        ELSE
          LET D  == IF Has(kw, "D") THEN kw["D"] ELSE Sqrt(kw["A"])
              A  == IF Has(kw, "D") THEN Square(kw["D"]) ELSE kw["A"]
              b0 == BlankBeam(kw["w"], profile, D, A)
          IN  IF Has(kw, "E")
              THEN LET r == setE(b0, kw["E"])
                   IN  [err |-> r.err, obj |-> Some(r.self), log |-> log]
              ELSE IF ~Has(kw, "P") THEN fail
              ELSE LET r == setP(b0, kw["P"])
                   IN  IF r.err = ""
                       THEN [err |-> "", obj |-> Some(r.self), log |-> log]
                       ELSE [err |-> r.err, obj |-> None, log |-> log]

\* beam.__iter__
beam_iter(b) == <<b.w, b.P, b.D>>

-----------------------------------------------------------------------------
(* The beam specification: constructor calls, setP/setE calls on the       *)
(* constructed beam, and the rebuild of a beam from its own amplitude.     *)

NoKw == [k \in {} |-> 0]
Opt(k, vals) == {NoKw} \cup {k :> v : v \in vals}

BeamKwargs ==
    {w @@ pr @@ d @@ a @@ e @@ p :
        w  \in Opt("w", {<<0>>}),
        pr \in Opt("profile", Profiles \cup {"tophat"}),
        d  \in Opt("D", {AsRoot(R(x)) : x \in 1..MaxA}),
        a  \in Opt("A", {R(x) : x \in 1..MaxA}),
        e  \in Opt("E", {AsRoot(R(x)) : x \in 0..MaxAmp}),
        p  \in Opt("P", {R(x) : x \in 0..MaxP})}

IdleBeam ==
    /\ bm_kwargs = NoKw
    /\ bm_obj = None
    /\ bm_err = ""
    /\ bm_log = <<>>
    /\ bm_by = ""
    /\ bm_back = None

NewBeam ==
    /\ bm_kwargs = NoKw
    /\ \E kw \in BeamKwargs :
        LET r == beam(kw)
        IN  /\ bm_kwargs' = kw
            /\ bm_obj' = r.obj
            /\ bm_err' = r.err
            /\ bm_log' = r.log
            /\ bm_by' = IF r.obj = None THEN ""
                        ELSE IF Has(kw, "E") THEN "E" ELSE "P"
            /\ bm_back' = None
            /\ UNCHANGED <<m2l_vars, sys_vars, call_vars, ld_vars>>

CallSetP ==
    /\ bm_obj # None
    /\ \E P \in {R(x) : x \in 0..MaxP} :
        LET r == setP(bm_obj[1], P)
        IN  /\ bm_obj' = Some(r.self)
            /\ bm_err' = r.err
            /\ bm_by' = IF r.err = "" THEN "P" ELSE ""
    /\ bm_back' = None
    /\ UNCHANGED <<bm_kwargs, bm_log, m2l_vars, sys_vars, call_vars, ld_vars>>

CallSetE ==
    /\ bm_obj # None
    /\ \E E \in {AsRoot(R(x)) : x \in 0..MaxAmp} :
        LET r == setE(bm_obj[1], E)
        IN  /\ bm_obj' = Some(r.self)
            /\ bm_err' = r.err
            /\ bm_by' = "E"
    /\ bm_back' = None
    /\ UNCHANGED <<bm_kwargs, bm_log, m2l_vars, sys_vars, call_vars, ld_vars>>

\* read the amplitude back and build a second beam from it, with the same
\* area and profile
Rebuild ==
    /\ bm_obj # None
    /\ bm_back = None
    /\ LET b == bm_obj[1]
           r == beam(("w" :> b.w) @@ ("profile" :> b.profile) @@
                     ("A" :> b.A) @@ ("E" :> b.E))
       IN  bm_back' = r.obj
    /\ UNCHANGED <<bm_kwargs, bm_obj, bm_err, bm_log, bm_by>>
    /\ UNCHANGED <<m2l_vars, sys_vars, call_vars, ld_vars>>


-----------------------------------------------------------------------------
(* atomicSystem.matrix2list and the index lists of generate_linear_system  *)
(* and solve.  Levels, rows and columns count from 0 as in the source; a   *)
(* matrix is a function on pairs <<i, j>>; a list is a sequence, so list   *)
(* position p of the source is element p + 1.                              *)

Idx(N) == (0..(N - 1)) \X (0..(N - 1))

\* a variant of the inner loop that appends mat[i, j] to both lists (the
\* transpose forgotten)
RECURSIVE m2l_inner_untransposed(_, _, _, _)
m2l_inner_untransposed(mat, i, j, cols) ==
    IF j >= cols THEN <<<<>>, <<>>>>
    ELSE LET rest == m2l_inner_untransposed(mat, i, j + 1, cols)
         IN  <<<<mat[i, j]>> \o rest[1], <<mat[i, j]>> \o rest[2]>>

\* the inner loop, for j in range(j, cols): <<l1, l2>> appended by it
RECURSIVE m2l_inner(_, _, _, _)
m2l_inner(mat, i, j, cols) ==
    IF j >= cols THEN <<<<>>, <<>>>>
    ELSE LET rest == m2l_inner(mat, i, j + 1, cols)
         IN  <<<<mat[i, j]>> \o rest[1], <<mat[j, i]>> \o rest[2]>>

\* the outer loop, for i in range(i, rows)
RECURSIVE m2l_outer(_, _, _, _)
m2l_outer(mat, i, rows, cols) ==
    IF i >= rows THEN <<<<>>, <<>>>>
    ELSE LET row  == m2l_inner(mat, i, i + 1, cols)
             rest == m2l_outer(mat, i + 1, rows, cols)
         IN  <<row[1] \o rest[1], row[2] \o rest[2]>>

matrix2list(mat, N) ==
    LET l == m2l_outer(mat, 0, N, N)
    IN  [k \in 1..N |-> mat[k - 1, k - 1]] \o l[1] \o l[2]

\* self.slices: manifold i occupies levels lo..hi-1
slices(n) ==
    <<[lo |-> 0, hi |-> n[1]], [lo |-> n[1], hi |-> n[1] + n[2]]>>

InSlice(s, i) == s.lo <= i /\ i < s.hi

\* mask = np.full((N, N), False); mask[rows, cols] = True
BlockMask(N, rows, cols) ==
    [ij \in Idx(N) |-> InSlice(rows, ij[1]) /\ InSlice(cols, ij[2])]

\* a variant of transition_list with rows and columns exchanged (the mask of
\* transition_list2)
transition_list_lower(n) ==
    <<matrix2list(BlockMask(n[1] + n[2], slices(n)[2], slices(n)[1]),
                  n[1] + n[2])>>

\* self.transition_list (ground rows, excited columns)
transition_list(n) ==
    <<matrix2list(BlockMask(n[1] + n[2], slices(n)[1], slices(n)[2]),
                  n[1] + n[2])>>

\* self.transition_list2 (excited rows, ground columns)
transition_list2(n) ==
    <<matrix2list(BlockMask(n[1] + n[2], slices(n)[2], slices(n)[1]),
                  n[1] + n[2])>>

\* res[mask]: the list positions a boolean list selects, in order
RECURSIVE MaskSelect(_, _)
MaskSelect(mask, p) ==
    IF p >= Len(mask) THEN <<>>
    ELSE (IF mask[p + 1] THEN <<p>> ELSE <<>>) \o MaskSelect(mask, p + 1)

\* res[slice]: the list positions a slice selects, in order
SliceSelect(s) == [k \in 1..(s.hi - s.lo) |-> s.lo + k - 1]

\* the coordinates solve sums: the excited population (state_population[1])
\* and the susceptibility (chi[0])
SolveCoords(n) ==
    [pop |-> SliceSelect(slices(n)[2]),
     chi |-> MaskSelect(transition_list(n)[1], 0)]

\* self.r: the matrix of the symbols rho_ij
RhoMatrix(N) == [ij \in Idx(N) |-> ij]

-----------------------------------------------------------------------------
(* The index specification: matrix2list on symbol, mask and single-entry   *)
(* matrices of every size up to 2*MaxSub, and solve's coordinate choice.   *)

\* boolean matrices: the two block masks and every single-entry mask
TestMasks(n) ==
    LET N == n[1] + n[2]
    IN  {BlockMask(N, slices(n)[1], slices(n)[2]),
         BlockMask(N, slices(n)[2], slices(n)[1])}
        \cup {[ij \in Idx(N) |-> ij = p] : p \in Idx(N)}

IdleM2L ==
    /\ ml_n = <<1, 1>>
    /\ ml_mat = RhoMatrix(2)
    /\ ml_kind = "symbols"
    /\ ml_out = None
    /\ ml_sel = None

InitM2L ==
    /\ ml_n \in (1..MaxSub) \X (1..MaxSub)
    /\ \/ ml_kind = "symbols" /\ ml_mat = RhoMatrix(ml_n[1] + ml_n[2])
       \/ ml_kind = "mask" /\ ml_mat \in TestMasks(ml_n)
    /\ ml_out = None
    /\ ml_sel = None

CallMatrix2List ==
    /\ ml_out = None
    /\ ml_out' = Some(matrix2list(ml_mat, ml_n[1] + ml_n[2]))
    /\ UNCHANGED <<ml_n, ml_mat, ml_kind, ml_sel, beam_vars, sys_vars, call_vars, ld_vars>>

CallSolveCoords ==
    /\ ml_sel = None
    /\ ml_sel' = Some(SolveCoords(ml_n))
    /\ UNCHANGED <<ml_n, ml_mat, ml_kind, ml_out, beam_vars, sys_vars, call_vars, ld_vars>>


-----------------------------------------------------------------------------
(* The atomic database (arc, elecsus) is outside the repository.  It is    *)
(* stood for by small tables: the sublevel counts, energies, dipole        *)
(* weights and thermal speed below are not physical values, only values of *)
(* the right shape, different enough to tell rows from columns.            *)

Micro == 1000000        \* the factor 1e6 (seconds to microseconds)

\* element.lower()
Lower(element) ==
    CASE element = "Li6"  -> "li6"
      [] element = "Na"   -> "na"
      [] element = "K39"  -> "k39"
      [] element = "Rb85" -> "rb85"
      [] element = "Rb87" -> "rb87"
      [] element = "Cs"   -> "cs"
      [] OTHER            -> element

\* the cascade of element tests in __init__: the arc atom and, for the
\* potassium and rubidium isotopes only, the abundance
SelectAtom(element, p_dict) ==
    LET e == Lower(element)
        hundred == R(100)
    IN  IF e \in {"li6", "lithium6"}
        THEN [err |-> "", atom |-> "Lithium6", abundance |-> None]
        ELSE IF e \in {"li7", "lithium7"}
        THEN [err |-> "", atom |-> "Lithium7", abundance |-> None]
        ELSE IF e \in {"na", "na23", "sodium", "sodium23"}
        THEN [err |-> "", atom |-> "Sodium", abundance |-> None]
        ELSE IF e \in {"k39", "potassium39"}
        THEN [err |-> "", atom |-> "Potassium39",
              abundance |-> Some(RSub(R(1),
                  RDiv(RAdd(p_dict["K40frac"], p_dict["K41frac"]), hundred)))]
        ELSE IF e \in {"k40", "potassium40"}
        THEN [err |-> "", atom |-> "Potassium40",
              abundance |-> Some(RDiv(p_dict["K40frac"], hundred))]
        ELSE IF e \in {"k41", "potassium41"}
        THEN [err |-> "", atom |-> "Potassium41",
              abundance |-> Some(RDiv(p_dict["K41frac"], hundred))]
        ELSE IF e \in {"rb85", "rubidium85"}
        THEN [err |-> "", atom |-> "Rubidium85",
              abundance |-> Some(RDiv(p_dict["rb85frac"], hundred))]
        ELSE IF e \in {"rb87", "rubidium87"}
        THEN [err |-> "", atom |-> "Rubidium87",
              abundance |-> Some(RSub(R(1),
                  RDiv(p_dict["rb85frac"], hundred)))]
        ELSE IF e \in {"cs", "cs133", "caesium", "caesium133"}
        THEN [err |-> "", atom |-> "Caesium", abundance |-> None]
        ELSE [err |-> "ValueError", atom |-> "", abundance |-> None]

\* class state, with j doubled to keep it an integer (j2 = 2j)
state(n, l, j2) == [n |-> n, l |-> l, j2 |-> j2]

\* atom.groundStateN
groundStateN(atom) ==
    CASE atom \in {"Lithium6", "Lithium7"}                    -> 2
      [] atom = "Sodium"                                      -> 3
      [] atom \in {"Potassium39", "Potassium40", "Potassium41"} -> 4
      [] atom \in {"Rubidium85", "Rubidium87"}                -> 5
      [] OTHER                                                -> 6

\* a variant of the choice of states that takes every Dline other than
\* 'D1' for 'D2'
SelectStates_default_D2(atom, p_dict, states) ==
    IF states = None
    THEN [err |-> "", log |-> <<>>, p_dict |-> p_dict,
          states |-> <<state(groundStateN(atom), 0, 1),
                       state(groundStateN(atom), 1,
                             IF p_dict["Dline"] = "D1" THEN 1 ELSE 3)>>]
    ELSE [err |-> "", states |-> states[1],
          log |-> <<"States have been explicitly given, override Dline parameter">>,
          p_dict |-> [p_dict EXCEPT !["Dline"] = "D1"]]

\* the choice of self.states and of p_dict['Dline'] in __init__; with
\* explicit states the j difference is taken of states[1] with itself.
\* The thresholds 0.9 and 1.1 on j are 1.8 and 2.2 on 2j, written times 10.
SelectStates(atom, p_dict, states) ==
    IF states = None
    THEN LET groundState == state(groundStateN(atom), 0, 1)
         IN  IF p_dict["Dline"] = "D1"
             THEN [err |-> "", log |-> <<>>, p_dict |-> p_dict,
                   states |-> <<groundState,
                                state(groundStateN(atom), 1, 1)>>]
             ELSE IF p_dict["Dline"] = "D2"
             THEN [err |-> "", log |-> <<>>, p_dict |-> p_dict,
                   states |-> <<groundState,
                                state(groundStateN(atom), 1, 3)>>]
             ELSE [err |-> "ValueError", log |-> <<>>, p_dict |-> p_dict,
                   states |-> <<>>]
    ELSE LET st   == states[1]
             dj10 == 10 * (st[2].j2 - st[2].j2)
             warn == <<"States have been explicitly given, override Dline parameter">>
         IN  IF dj10 < 18
             THEN [err |-> "", log |-> warn, states |-> st,
                   p_dict |-> [p_dict EXCEPT !["Dline"] = "D1"]]
             ELSE IF dj10 < 22
             THEN [err |-> "", log |-> warn, states |-> st,
                   p_dict |-> [p_dict EXCEPT !["Dline"] = "D2"]]
             ELSE [err |-> "ValueError", log |-> warn, states |-> st,
                   p_dict |-> p_dict]

\* Celsius to Kelvin: + 273.15
Kelvin(t) == RAdd(t, <<27315, 100>>)

\* np.sqrt(np.pi * c.k * DoppT / 2 / mass): the thermal mean speed (table)
ThermalSpeed(atom, DoppT) ==
    IF DoppT[1] < 300 * DoppT[2] THEN R(1) ELSE R(2)

Inf == <<1, 0>>
IsInf(t) == t[2] = 0

\* getTransitTime(mean_speed_2d): mean_path / |mean_speed_2d| in units in
\* which np.pi / 4 * beam_diameter is the number beam_diameter; a zero
\* speed gives numpy's inf
getTransitTime(atom, DoppT, beam_diameter, mean_speed_2d) ==
    LET v == IF mean_speed_2d = None THEN ThermalSpeed(atom, DoppT)
             ELSE mean_speed_2d[1]
    IN  IF v[1] = 0 THEN Inf ELSE RDiv(beam_diameter, <<Abs(v[1]), v[2]>>)

TimesMicro(t) == IF IsInf(t) THEN Inf ELSE RMul(t, R(Micro))

\* 1 / transit_time
PerTime(t) == IF IsInf(t) THEN R(0) ELSE RDiv(R(1), t)

\* len(mf) of atom.breitRabi(n, l, j, B): the sublevels of a state (table)
Sublevels(atom, st) ==
    IF st.l = 0
    THEN (IF atom \in {"Lithium6", "Lithium7", "Rubidium85"} THEN 1 ELSE 2)
    ELSE (IF st.j2 = 1 THEN 1 ELSE 2)

\* dme_squared * naturalLineWidth, shape n[0] x n[1] (table)
GammasOf(atom, n) ==
    [ge \in (0..(n[1] - 1)) \X (0..(n[2] - 1)) |-> R(1 + ge[1] + 2 * ge[2])]

\* the polarisation-weighted dipole matrix, in units of 2e6 * h (table)
dmeOf(atom, n) ==
    [ge \in (0..(n[1] - 1)) \X (0..(n[2] - 1)) |-> 1 + 2 * ge[1] + ge[2]]

\* H.groundEnergies and the Dline's part of H.excitedEnergies (table)
energySeparationOf(atom, n) ==
    <<[g \in 0..(n[1] - 1) |-> g], [e \in 0..(n[2] - 1) |-> 5 + e]>>

\* the field atomicSystem.Hamiltonian(n, l, j, B) diagonalises with: a zero
\* field is moved to 1e-9.  No statement of the class calls this method.
Hamiltonian_B(B) == IF B = R(0) THEN <<1, 1000000000>> ELSE B

\* initSystemProperties: the level data of the instance; H_Bfield is the
\* field handed to atom.breitRabi and to elecsus' Hamiltonian, which
\* diagonalise the sublevels: p_dict['Bfield'] as it is
initSystemProperties(atom, states, p_dict, DoppT, beam_diameter) ==
    LET n  == <<Sublevels(atom, states[1]), Sublevels(atom, states[2])>>
        t0 == TimesMicro(getTransitTime(atom, DoppT, beam_diameter, None))
    IN  [n |-> n,
         total_levels |-> n[1] + n[2],
         transit_time |-> IF Has(p_dict, "Gammat")
                          THEN RMul(p_dict["Gammat"], R(Micro)) ELSE t0,
         slices |-> slices(n),
         H_Bfield |-> p_dict["Bfield"],
         energySeparation |-> energySeparationOf(atom, n),
         Gammas |-> GammasOf(atom, n),
         dme |-> dmeOf(atom, n)]


-----------------------------------------------------------------------------
(* Symbolic expressions.  Every entry of the master equation is linear in  *)
(* the symbols rho_kl, with coefficients of the form                       *)
(*     re + rt / tau_t  +  i * (ic + iw * w_01 + ie * Efield_01)           *)
(* (re, rt rational; ic, iw, ie integer).  An expression is                *)
(* [lin |-> coefficient of each rho_kl, k |-> constant term].              *)

Coef(re, rt, ic, iw, ie) ==
    [re |-> re, rt |-> rt, ic |-> ic, iw |-> iw, ie |-> ie]

ZeroCoef == Coef(R(0), R(0), 0, 0, 0)
OneCoef  == Coef(R(1), R(0), 0, 0, 0)

\* a rate: re + rt / tau_t
Rate(re, rt) == [re |-> re, rt |-> rt]
ZeroRate     == Rate(R(0), R(0))
RateAdd(a, b) == Rate(RAdd(a.re, b.re), RAdd(a.rt, b.rt))
RateSub(a, b) == Rate(RSub(a.re, b.re), RSub(a.rt, b.rt))
RateHalf(a)   == Rate(RMul(<<1, 2>>, a.re), RMul(<<1, 2>>, a.rt))
RateNeg(a)    == Rate(RNeg(a.re), RNeg(a.rt))

\* sum of f[m] for m in lo..hi
RECURSIVE RateSum(_, _, _)
RateSum(f, lo, hi) ==
    IF lo > hi THEN ZeroRate ELSE RateAdd(f[lo], RateSum(f, lo + 1, hi))

\* an affine function of w_01 and Efield_01: c + w * w_01 + e * Efield_01
Aff(c, w, e) == [c |-> c, w |-> w, e |-> e]
ZeroAff      == Aff(0, 0, 0)
AffSub(a, b) == Aff(a.c - b.c, a.w - b.w, a.e - b.e)

\* self.H = H_rabi + H_energylevels: the Rabi coupling block with its
\* transpose, and the diagonal of detunings
Hamiltonian_H(n, dme, energySeparation) ==
    LET ng == n[1]
    IN  [ik \in Idx(n[1] + n[2]) |->
            LET i == ik[1]
                k == ik[2]
            IN  IF i = k
                THEN (IF i < ng
                      THEN Aff(-energySeparation[1][i], 0, 0)
                      ELSE Aff(-energySeparation[2][i - ng], 1, 0))
                ELSE IF i < ng /\ k >= ng THEN Aff(0, 0, dme[i, k - ng])
                ELSE IF i >= ng /\ k < ng THEN Aff(0, 0, dme[k, i - ng])
                ELSE ZeroAff]

\* (H * r - r * H)[i, j]: the coefficient of rho_kl
Commutator(H, N) ==
    [ij \in Idx(N) |-> [kl \in Idx(N) |->
        AffSub(IF kl[2] = ij[2] THEN H[ij[1], kl[1]] ELSE ZeroAff,
               IF kl[1] = ij[1] THEN H[kl[2], ij[2]] ELSE ZeroAff)]]

\* a variant of Lindblad_decay whose diagonal loss is taken from the
\* column: L[i,i] += rates[j,i] * r[j,j] - rates[j,i] * r[i,i]
Lindblad_decay_column_loss(rates, N) ==
    [ij \in Idx(N) |-> [kl \in Idx(N) |->
        LET i == ij[1]
            j == ij[2]
        IN  IF i = j
            THEN IF kl[1] # kl[2] THEN ZeroRate
                 ELSE RateSub(rates[kl[1], i],
                        IF kl[1] = i
                        THEN RateSum([m \in 0..(N - 1) |-> rates[m, i]],
                                     0, N - 1)
                        ELSE ZeroRate)
            ELSE IF kl # ij THEN ZeroRate
                 ELSE RateNeg(RateHalf(
                        RateSum([m \in 0..(N - 1) |->
                                    RateAdd(rates[i, m], rates[j, m])],
                                0, N - 1)))]]

\* Lindblad_decay(rates): the coefficient of rho_kl in L[i, j].
\*   L[i,i] += rates[j,i] * r[j,j] - rates[i,j] * r[i,i]     for every j
\*   L[i,j] -= 0.5 * (rates[i,k] + rates[j,k]) * r[i,j]      for every k
Lindblad_decay(rates, N) ==
    [ij \in Idx(N) |-> [kl \in Idx(N) |->
        LET i == ij[1]
            j == ij[2]
        IN  IF i = j
            THEN IF kl[1] # kl[2] THEN ZeroRate
                 ELSE RateSub(rates[kl[1], i],
                        IF kl[1] = i
                        THEN RateSum([m \in 0..(N - 1) |-> rates[i, m]],
                                     0, N - 1)
                        ELSE ZeroRate)
            ELSE IF kl # ij THEN ZeroRate
                 ELSE RateNeg(RateHalf(
                        RateSum([m \in 0..(N - 1) |->
                                    RateAdd(rates[i, m], rates[j, m])],
                                0, N - 1)))]]

\* Lindblad_dephase(rates): L[i,j] -= 0.5 * rates[i,j] * r[i,j] for i != j
Lindblad_dephase(rates, N) ==
    [ij \in Idx(N) |-> [kl \in Idx(N) |->
        IF ij[1] # ij[2] /\ kl = ij
        THEN RateNeg(RateHalf(rates[ij[1], ij[2]]))
        ELSE ZeroRate]]

\* a rate matrix with `value` in the block rows x cols and zero elsewhere
BlockRates(N, rows, cols, value) ==
    [ij \in Idx(N) |->
        IF InSlice(rows, ij[1]) /\ InSlice(cols, ij[2]) THEN value
        ELSE ZeroRate]

MatAdd(a, b) == [ij \in DOMAIN a |-> RateAdd(a[ij], b[ij])]

\* a variant that puts the decay rates into the other block,
\* g_dec[slices[0], slices[1]] = Gammas
g_dec_other_block(lv) ==
    [ij \in Idx(lv.total_levels) |->
        IF InSlice(lv.slices[1], ij[1]) /\ InSlice(lv.slices[2], ij[2])
        THEN Rate(lv.Gammas[ij[1], ij[2] - lv.n[1]], R(0))
        ELSE ZeroRate]

\* g_dec[slices[1], slices[0]] = Gammas.T
g_dec(lv) ==
    [ij \in Idx(lv.total_levels) |->
        IF InSlice(lv.slices[2], ij[1]) /\ InSlice(lv.slices[1], ij[2])
        THEN Rate(lv.Gammas[ij[2], ij[1] - lv.n[1]], R(0))
        ELSE ZeroRate]

\* 1 / transit_time / n[0] / 2, numeric or in the symbol tau_t
TransitRate(lv, symbolic) ==
    LET per == RDiv(R(1), R(2 * lv.n[1]))
    IN  IF symbolic THEN Rate(R(0), per)
        ELSE Rate(RMul(PerTime(lv.transit_time), per), R(0))

\* g_transit: the ground-ground and the excited-ground block
g_transit(lv, symbolic) ==
    MatAdd(BlockRates(lv.total_levels, lv.slices[1], lv.slices[1],
                      TransitRate(lv, symbolic)),
           BlockRates(lv.total_levels, lv.slices[2], lv.slices[1],
                      TransitRate(lv, symbolic)))

\* g_col for decaying collisions: GammaBuf / n[0], excited-ground block
g_col_decay(lv, GammaBuf) ==
    BlockRates(lv.total_levels, lv.slices[2], lv.slices[1],
               Rate(RDiv(GammaBuf, R(lv.n[1])), R(0)))

\* g_col for dephasing collisions: GammaBuf in both off-diagonal blocks
g_col_dephase(lv, GammaBuf) ==
    MatAdd(BlockRates(lv.total_levels, lv.slices[2], lv.slices[1],
                      Rate(GammaBuf, R(0))),
           BlockRates(lv.total_levels, lv.slices[1], lv.slices[2],
                      Rate(GammaBuf, R(0))))

\* -i * (H*r - r*H) - L: one expression per entry (i, j)
Assemble(N, comm, L) ==
    [ij \in Idx(N) |->
        [lin |-> [kl \in Idx(N) |->
                    Coef(RNeg(L[ij][kl].re), RNeg(L[ij][kl].rt),
                         -comm[ij][kl].c, -comm[ij][kl].w, -comm[ij][kl].e)],
         k   |-> R(0)]]

LAdd(a, b) == [ij \in DOMAIN a |-> [kl \in DOMAIN a[ij] |->
                  RateAdd(a[ij][kl], b[ij][kl])]]

\* a variant of the master equation whose dephasing branch leaves the
\* transit rates out of Lindblad_decay
MasterEquation_dephase_no_transit(lv, collisions, GammaBuf, symbolic) ==
    LET N    == lv.total_levels
        comm == Commutator(Hamiltonian_H(lv.n, lv.dme, lv.energySeparation), N)
        base == MatAdd(g_dec(lv), g_transit(lv, symbolic))
    IN  IF collisions = "decay"
        THEN Assemble(N, comm,
                 Lindblad_decay(MatAdd(base, g_col_decay(lv, GammaBuf)), N))
        ELSE Assemble(N, comm,
                 LAdd(Lindblad_decay(g_dec(lv), N),
                      Lindblad_dephase(g_col_dephase(lv, GammaBuf), N)))

\* the master equation for one collision model
MasterEquation(lv, collisions, GammaBuf, symbolic) ==
    LET N    == lv.total_levels
        comm == Commutator(Hamiltonian_H(lv.n, lv.dme, lv.energySeparation), N)
        base == MatAdd(g_dec(lv), g_transit(lv, symbolic))
    IN  IF collisions = "decay"
        THEN Assemble(N, comm,
                 Lindblad_decay(MatAdd(base, g_col_decay(lv, GammaBuf)), N))
        ELSE Assemble(N, comm,
                 LAdd(Lindblad_decay(base, N),
                      Lindblad_dephase(g_col_dephase(lv, GammaBuf), N)))

\* generateMatrices: [err, log, p_dict, master_equation].  A missing
\* 'collisions' key is written into p_dict as 'decay'; any other value than
\* 'decay' or 'dephase' leaves master_equation unassigned.
generateMatrices(lv, p_dict) ==
    LET absent == ~Has(p_dict, "collisions")
        pd     == IF absent THEN p_dict @@ ("collisions" :> "decay")
                  ELSE p_dict
        log    == IF absent THEN <<"Implicitly assume decaying collisions">>
                  ELSE <<>>
    IN  IF pd["collisions"] \in {"decay", "dephase"}
        THEN [err |-> "", log |-> log, p_dict |-> pd,
              master_equation |->
                  Some(MasterEquation(lv, pd["collisions"], pd["GammaBuf"],
                                      Has(pd, "symbolic_transit")))]
        ELSE [err |-> "", log |-> log, p_dict |-> pd,
              master_equation |-> None]


-----------------------------------------------------------------------------
(* The linear system *)

\* system_matrix.subs({'tau_t': transit_time})
SubsTau(sm, transit_time) ==
    [ij \in DOMAIN sm |->
        [sm[ij] EXCEPT !.lin = [kl \in DOMAIN sm[ij].lin |->
            [sm[ij].lin[kl] EXCEPT
                !.re = RAdd(sm[ij].lin[kl].re,
                            RMul(sm[ij].lin[kl].rt, PerTime(transit_time))),
                !.rt = R(0)]]]]

\* -1 + self.r.trace()
TraceConstraint(N) ==
    [lin |-> [kl \in Idx(N) |-> IF kl[1] = kl[2] THEN OneCoef ELSE ZeroCoef],
     k   |-> R(-1)]

\* a variant of the system matrix that keeps the (0, 0) equation of the
\* master equation
BuildSystemMatrix_raw(master_equation, p_dict, transit_time, N) ==
    IF Has(p_dict, "symbolic_transit")
    THEN SubsTau(master_equation, transit_time)
    ELSE master_equation

\* the three statements that build self.system_matrix from the master
\* equation: as_mutable(), the substitution of tau_t when 'symbolic_transit'
\* is in p_dict, and system_matrix[0] = -1 + trace
BuildSystemMatrix(master_equation, p_dict, transit_time, N) ==
    LET sm == IF Has(p_dict, "symbolic_transit")
              THEN SubsTau(master_equation, transit_time)
              ELSE master_equation
    IN  [sm EXCEPT ![<<0, 0>>] = TraceConstraint(N)]

\* the equations in the order linear_eq_to_matrix reads them: row-major
FlatEntry(e, N) == <<(e - 1) \div N, (e - 1) % N>>

\* the vector b of generate_linear_system: zeros with b[0] = 1
UnitVector(len) == [k \in 1..len |-> IF k = 1 THEN 1 ELSE 0]

\* generate_linear_system: r_list, the two transition lists, the
\* coefficient matrix A of system_matrix in the unknowns r_list, and b
generate_linear_system(system_matrix, n) ==
    LET N      == n[1] + n[2]
        r_list == matrix2list(RhoMatrix(N), N)
    IN  [r_list |-> r_list,
         transition_list  |-> transition_list(n),
         transition_list2 |-> transition_list2(n),
         A |-> [ek \in (1..(N * N)) \X (1..(N * N)) |->
                   system_matrix[FlatEntry(ek[1], N)].lin[r_list[ek[2]]]],
         b |-> UnitVector(N * N)]

\* what identifies the compiled evaluator in a result: the sums of its
\* coefficients
CoefAdd(x, y) ==
    Coef(RAdd(x.re, y.re), RAdd(x.rt, y.rt),
         x.ic + y.ic, x.iw + y.iw, x.ie + y.ie)

\* sum of the entries of A whose flat position lies in lo..hi, halving the
\* range at every step
RECURSIVE CoefSum(_, _, _, _)
CoefSum(A, len, lo, hi) ==
    IF lo > hi THEN ZeroCoef
    ELSE IF lo = hi THEN A[((lo - 1) \div len) + 1, ((lo - 1) % len) + 1]
    ELSE LET mid == (lo + hi) \div 2
         IN  CoefAdd(CoefSum(A, len, lo, mid), CoefSum(A, len, mid + 1, hi))

Evaluator(A, N) == CoefSum(A, N * N, 1, (N * N) * (N * N))


-----------------------------------------------------------------------------
(* class atomicSystem: construction, update_transit, update *)

\* what a raising constructor leaves: no instance
NoSystem(err, log) ==
    [err |-> err, log |-> log, inst |-> None, master_equation |-> None,
     system_matrix |-> None, A |-> None, b |-> None]

\* atomicSystem.__init__(element, E_in, p_dict, states)
atomicSystem(element, p_dict0, states) ==
    LET at == SelectAtom(element, p_dict0)
    IN  IF at.err # "" THEN NoSystem(at.err, <<>>)
        ELSE
        LET st == SelectStates(at.atom, p_dict0, states)
        IN  IF st.err # "" THEN NoSystem(st.err, st.log)
            ELSE
            LET T     == Kelvin(st.p_dict["T"])
                DoppT == IF st.p_dict["Constrain"] THEN T
                         ELSE Kelvin(st.p_dict["DoppTemp"])
                diam  == st.p_dict["laserWaist"]
                lv    == initSystemProperties(at.atom, st.states, st.p_dict,
                                              DoppT, diam)
                gm    == generateMatrices(lv, st.p_dict)
                log1  == st.log \o gm.log
            IN  IF gm.master_equation = None
                THEN NoSystem("AttributeError", log1)
                ELSE
                LET symb == Has(gm.p_dict, "symbolic_transit")
                    sm   == BuildSystemMatrix(gm.master_equation[1],
                               gm.p_dict, lv.transit_time, lv.total_levels)
                    ls   == generate_linear_system(sm, lv.n)
                IN  [err  |-> "",
                     log  |-> log1 \o (IF symb
                                       THEN <<"USING symbolic transit time">>
                                       ELSE <<>>),
                     inst |-> Some(
                        [element |-> element, atom |-> at.atom,
                         abundance |-> at.abundance, states |-> st.states,
                         n_states |-> Len(st.states),
                         T |-> T, DoppT |-> DoppT, beam_diameter |-> diam,
                         p_dict |-> gm.p_dict] @@ lv @@
                        [r_list |-> ls.r_list,
                         transition_list |-> ls.transition_list,
                         transition_list2 |-> ls.transition_list2]),
                     master_equation |-> gm.master_equation,
                     system_matrix |-> Some(sm),
                     A |-> Some(ls.A),
                     b |-> Some(ls.b)]

\* self.A, self.b = self.generate_linear_system(): what update_transit
\* leaves on the instance
Relinearised(self, tt, sm, ls) ==
    [inst |-> [self EXCEPT !.transit_time = tt,
                           !.r_list = ls.r_list,
                           !.transition_list = ls.transition_list,
                           !.transition_list2 = ls.transition_list2],
     system_matrix |-> sm, A |-> ls.A, b |-> ls.b]

\* system_matrix rebuilt from self.master_equation with transit time tt
Rebuilt(self, tt, sm) ==
    Relinearised(self, tt, sm, generate_linear_system(sm, self.n))

RebuildAt(self, master_equation, tt) ==
    Rebuilt(self, tt, BuildSystemMatrix(master_equation, self.p_dict, tt,
                                        self.total_levels))

\* update_transit(mean_speed): the new transit time, and system_matrix, A
\* and b rebuilt from self.master_equation (generateMatrices is not called)
update_transit(self, master_equation, mean_speed) ==
    RebuildAt(self, master_equation,
              TimesMicro(getTransitTime(self.atom, self.DoppT,
                                        self.beam_diameter,
                                        Some(mean_speed))))

\* update(p_dict): temperatures, beam diameter and transit time (in
\* seconds: the factor 1e6 is not applied here)
update(self, p_dict) ==
    LET T     == Kelvin(p_dict["T"])
        DoppT == IF p_dict["Constrain"] THEN T ELSE Kelvin(p_dict["DoppTemp"])
        diam  == p_dict["laserWaist"]
    IN  [self EXCEPT !.p_dict = p_dict, !.T = T, !.DoppT = DoppT,
                     !.beam_diameter = diam,
                     !.transit_time =
                         getTransitTime(self.atom, DoppT, diam, None)]


-----------------------------------------------------------------------------
(* solve, solve_w_doppler, optical_depth, transmission, absorption,        *)
(* propagated_transmission.                                                *)
(*                                                                         *)
(* The instance state a method works on is the record                      *)
(*   [inst, master_equation, system_matrix, A, b];                         *)
(* a method yields [st, err, ret, log]: the state it leaves, the exception *)
(* that left it ("" for none), <<value>> returned, and its warnings.       *)
(* np.linalg.solve is outside the repository: whether it finds A(w, E)     *)
(* singular is an input, the set `sing` of detunings at which it raises.   *)
(* A numeric result is not computed; a returned value records what it was  *)
(* computed from: the evaluator, the grid, the coordinates summed.         *)

resolution == 2         \* resolution = 2  # MHz

\* the instance state with what update_transit assigned
Updated(st, u) ==
    [st EXCEPT !.inst = u.inst, !.system_matrix = u.system_matrix,
               !.A = u.A, !.b = u.b]

\* a variant that leaves the system as it is
Advance_keep(st, mean_speed) == st

\* the method a state is advanced with before each sample of the integral
Advance(st, mean_speed) ==
    Updated(st, update_transit(st.inst, st.master_equation, mean_speed))

\* a variant in which a method that returns leaves the system recompiled
\* for another transit time
Return_recompiled(st, v, log) == [st |-> Advance(st, R(MaxSpeed + 1)), err |-> "", ret |-> Some(v), log |-> log]

Raise(st, err, log) == [st |-> st, err |-> err, ret |-> None, log |-> log]
Return(st, v, log)  == [st |-> st, err |-> "", ret |-> Some(v), log |-> log]

\* a variant that looks at the first grid point only
HitsSingular_first(w, sing) == Len(w) > 0 /\ w[1] \in sing

\* np.linalg.solve raises at some grid point: a detuning of w is in sing
HitsSingular(w, sing) == \E k \in 1..Len(w) : w[k] \in sing

\* a variant of solve that takes a missing abundance for 1
solve_default_abundance(st, beams, sing) ==
    LET self == st.inst
        bm   == beams[1]
    IN  IF Len(beam_iter(bm)) # 3 THEN Raise(st, "ValueError", <<>>)
        ELSE IF HitsSingular(bm.w, sing) THEN Raise(st, "LinAlgError", <<>>)
        ELSE Return(st,
                [kind |-> "solve", w |-> bm.w, E |-> bm.E,
                 evaluator |-> Evaluator(st.A, self.total_levels),
                 b |-> st.b,
                 population |-> SliceSelect(self.slices[2]),
                 chi |-> MaskSelect(self.transition_list[1], 0),
                 abundance |-> IF self.abundance = None THEN R(1)
                               ELSE self.abundance[1]],
                <<>>)

\* solve(beams): (state_population[1], chi[0])
solve(st, beams, sing) ==
    LET self == st.inst
        bm   == beams[1]
    IN  IF Len(beam_iter(bm)) # 3 THEN Raise(st, "ValueError", <<>>)
        ELSE IF HitsSingular(bm.w, sing) THEN Raise(st, "LinAlgError", <<>>)
        ELSE IF self.abundance = None THEN Raise(st, "AttributeError", <<>>)
        ELSE Return(st,
                [kind |-> "solve", w |-> bm.w, E |-> bm.E,
                 evaluator |-> Evaluator(st.A, self.total_levels),
                 b |-> st.b,
                 population |-> SliceSelect(self.slices[2]),
                 chi |-> MaskSelect(self.transition_list[1], 0),
                 abundance |-> self.abundance[1]],
                <<>>)

SeqMin(w) == CHOOSE x \in {w[k] : k \in 1..Len(w)} :
                \A k \in 1..Len(w) : x <= w[k]
SeqMax(w) == CHOOSE x \in {w[k] : k \in 1..Len(w)} :
                \A k \in 1..Len(w) : x >= w[k]

\* k_ge * np.arange(w.min()/k_ge - span, w.max()/k_ge + span, resolution),
\* in units of k_ge
DopplerGrid(w) ==
    LET lo  == SeqMin(w) - DopplerSpan
        hi  == SeqMax(w) + DopplerSpan
        cnt == (hi - lo + resolution - 1) \div resolution
    IN  [k \in 1..cnt |-> lo + (k - 1) * resolution]

\* the result of solve_w_doppler once solve has run on the shifted beam nb
DopplerResult(st, w_ge, nb, r) ==
    IF r.err # "" THEN Raise(st, r.err, nb.log)
    ELSE Return(st, [kind |-> "doppler", w |-> w_ge, of |-> r.ret[1]], nb.log)

\* self.solve([beam(w=k_ge * v, P=P, D=D_ge, profile=beam_ge.profile)])
DopplerSolve(st, w_ge, nb, sing) ==
    IF nb.err # "" THEN Raise(st, nb.err, nb.log)
    ELSE DopplerResult(st, w_ge, nb, solve(st, nb.obj, sing))

\* solve_w_doppler(beams): one solve on the velocity-shifted grid per power
solve_w_doppler(st, beams, sing) ==
    LET beam_ge == beams[1]
        it      == beam_iter(beam_ge)
    IN  IF Len(it) # 3 THEN Raise(st, "ValueError", <<>>)
        ELSE DopplerSolve(st, it[1],
                beam(("w" :> DopplerGrid(it[1])) @@ ("P" :> it[2]) @@
                     ("D" :> it[3]) @@ ("profile" :> beam_ge.profile)),
                sing)

\* v = np.linspace(0, 900, 25), with NSamples samples one speed unit apart
IntegralSpeeds == [i \in 1..NSamples |-> R(i - 1)]

FallbackWarnings ==
    <<"Integrating without symbolic transit time not supported.",
      "Change your p_dict to include \"symbolic_transit: True\"",
      "Falling back to average operation...">>

\* _, chi = self.solve_w_doppler(beams) if doppler else self.solve(beams)
SolveChi(st, beams, doppler, sing) ==
    IF doppler THEN solve_w_doppler(st, beams, sing)
    ELSE solve(st, beams, sing)

\* the loop of the 'integral' treatment from sample i on; acc holds the
\* samples summed so far
RECURSIVE IntegralLoop(_, _, _, _, _, _)
\* chi += tmp_chi * self.rayleigh(vi) * dv, then the next sample
IntegralAdd(s1, beams, doppler, sing, i, acc, r) ==
    IF r.err # "" THEN Raise(s1, r.err, r.log)
    ELSE IntegralLoop(s1, beams, doppler, sing, i + 1,
                      Append(acc, [v |-> IntegralSpeeds[i], of |-> r.ret[1]]))

\* the body of the loop after self.update_transit(vi)
IntegralSample(s1, beams, doppler, sing, i, acc) ==
    IntegralAdd(s1, beams, doppler, sing, i, acc,
                SolveChi(s1, beams, doppler, sing))

IntegralLoop(st, beams, doppler, sing, i, acc) ==
    IF i > Len(IntegralSpeeds)
    THEN Return(st, [kind |-> "optical_depth", transit_type |-> "integral",
                     chi |-> acc], <<>>)
    ELSE IntegralSample(Advance(st, IntegralSpeeds[i]), beams, doppler, sing,
                        i, acc)

\* a variant without the fall back to 'single'
EffectiveTransitType_keep(p_dict, transit_type) == transit_type

\* the transit_type optical_depth goes on with after its first test
EffectiveTransitType(p_dict, transit_type) ==
    IF transit_type = "integral" /\ ~Has(p_dict, "symbolic_transit")
    THEN "single" ELSE transit_type

\* the 'single' treatment: the optical depth of one solve
SingleDepth(st, warn, r) ==
    IF r.err # "" THEN Raise(st, r.err, warn \o r.log)
    ELSE Return(st, [kind |-> "optical_depth", transit_type |-> "single",
                     chi |-> <<[v |-> R(0), of |-> r.ret[1]]>>],
                warn \o r.log)

\* optical_depth(beams, doppler, transit_type)
optical_depth(st, beams, doppler, transit_type, sing) ==
    LET tt   == EffectiveTransitType(st.inst.p_dict, transit_type)
        warn == IF tt # transit_type THEN FallbackWarnings ELSE <<>>
    IN  IF tt = "single"
        THEN SingleDepth(st, warn, SolveChi(st, beams, doppler, sing))
        ELSE IF tt = "integral"
        THEN IntegralLoop(st, beams, doppler, sing, 1, <<>>)
        ELSE Raise(st, "UnboundLocalError", warn)

\* np.exp(alpha * z) of an optical depth r
ExpAlphaZ(r, z) ==
    IF r.err # "" THEN r
    ELSE Return(r.st, [kind |-> "transmission", alpha |-> r.ret[1],
                       z |-> z], r.log)

\* transmission(beams, z, doppler, transit_type): exp(alpha * z)
transmission(st, beams, z, doppler, transit_type, sing) ==
    ExpAlphaZ(optical_depth(st, beams, doppler, transit_type, sing), z)

\* 1 - T of a transmission r
OneMinus(r) ==
    IF r.err # "" THEN r
    ELSE Return(r.st, [kind |-> "absorption", T |-> r.ret[1]], r.log)

\* absorption(beams, z, doppler, transit_type): 1 - transmission
absorption(st, beams, z, doppler, transit_type, sing) ==
    OneMinus(transmission(st, beams, z, doppler, transit_type, sing))


\* the loop of propagated_transmission from segment i on.  P holds the
\* power per detuning after segment i - 1 and T the product of the segment
\* transmissions so far; Tseg[i] is the array of numbers the i-th
\* transmission call returns (an input, like the solver's verdict).
RMin(P) == CHOOSE x \in {P[k] : k \in 1..Len(P)} :
              \A k \in 1..Len(P) : x[1] * P[k][2] <= P[k][1] * x[2]

RECURSIVE PropagationLoop(_, _, _, _, _, _, _, _, _, _, _)
\* P[i] = T[i] * P[i-1], then the next segment
PropagationStep(bm, dz, doppler, steps, transit_type, sing, Tseg, i, P, T, r) ==
    IF r.err # "" THEN r
    ELSE PropagationLoop(r.st, bm, dz, doppler, steps, transit_type, sing,
            Tseg, i + 1,
            [k \in 1..Len(P) |-> RMul(Tseg[i][k], P[k])],
            [k \in 1..Len(T) |-> RMul(Tseg[i][k], T[k])])

\* T[i] = self.transmission([beam(...)], z=dz, ...)
PropagationSegment(st, bm, dz, doppler, steps, transit_type, sing, Tseg, i, P, T, nb) ==
    IF nb.err # "" THEN Raise(st, nb.err, nb.log)
    ELSE PropagationStep(bm, dz, doppler, steps, transit_type, sing, Tseg,
            i, P, T,
            transmission(st, nb.obj, dz, doppler, transit_type, sing))

PropagationLoop(st, bm, dz, doppler, steps, transit_type, sing, Tseg, i, P, T) ==
    IF i > steps
    THEN Return(st, [kind |-> "propagated_transmission", T |-> T], <<>>)
    ELSE PropagationSegment(st, bm, dz, doppler, steps, transit_type, sing,
            Tseg, i, P, T,
            beam(("w" :> bm.w) @@ ("P" :> RMin(P)) @@ ("D" :> bm.D) @@
                 ("profile" :> bm.profile)))

\* propagated_transmission(beams, z, doppler, steps, transit_type): the
\* first statement unpacks beams[0] into four names
propagated_transmission(st, beams, z, doppler, steps, transit_type, sing, Tseg) ==
    LET it == beam_iter(beams[1])
    IN  IF Len(it) # 4 THEN Raise(st, "ValueError", <<>>)
        ELSE PropagationLoop(st, beams[1], RDiv(z, R(steps)), doppler, steps,
                             transit_type, sing, Tseg, 1,
                             [k \in 1..Len(it[1]) |-> it[2]],
                             [k \in 1..Len(it[1]) |-> R(1)])


-----------------------------------------------------------------------------
(* Lindblad_decay as a function of its own: any rate matrix on up to       *)
(* MaxLevels levels, with entries zero, numeric, or with a part in 1/tau_t *)

RateValues == {ZeroRate, Rate(R(1), R(0)), Rate(R(2), R(1))}

IdleLindblad ==
    /\ ld_N = 0
    /\ ld_rates = <<>>
    /\ ld_L = None

InitLindblad ==
    /\ ld_N \in 1..MaxLevels
    /\ ld_rates \in [Idx(ld_N) -> RateValues]
    /\ ld_L = None

\* L = Lindblad_decay(rates)
CallLindbladDecay ==
    /\ ld_L = None
    /\ ld_L' = Some(Lindblad_decay(ld_rates, ld_N))
    /\ UNCHANGED <<ld_N, ld_rates, beam_vars, m2l_vars, sys_vars, call_vars>>

-----------------------------------------------------------------------------
(* Inputs of the atomicSystem specifications *)

\* the p_dict a caller hands over: p_dict_defaults as far as the class
\* reads them, with a Dline, and the beam waist as one unit of length
PDictDefaults ==
    [Bfield |-> R(0), T |-> R(20), GammaBuf |-> R(0), Constrain |-> TRUE,
     DoppTemp |-> R(20), rb85frac |-> <<7217, 100>>, K40frac |-> <<1, 100>>,
     K41frac |-> <<673, 100>>, laserWaist |-> R(1), Dline |-> "D1"]

\* defaults overridden by explicit entries: {**p_dict_defaults, **p_dict}
Merge(defaults, given) ==
    [k \in DOMAIN defaults \cup DOMAIN given |->
        IF k \in DOMAIN given THEN given[k] ELSE defaults[k]]

NoCall == [op |-> "", args |-> <<>>]

IdleSys ==
    /\ self_inst = None
    /\ self_master_equation = None
    /\ self_system_matrix = None
    /\ self_A = None
    /\ self_b = None
    /\ last_call = NoCall
    /\ last_ret = None
    /\ last_err = ""
    /\ last_log = <<>>

\* the instance state the methods work on
Self ==
    [inst |-> self_inst[1], master_equation |-> self_master_equation[1],
     system_matrix |-> self_system_matrix[1], A |-> self_A[1],
     b |-> self_b[1]]

\* a method call ends: the state it left, what it returned or raised
Finish(op, args, r) ==
    /\ self_inst' = Some(r.st.inst)
    /\ self_master_equation' = Some(r.st.master_equation)
    /\ self_system_matrix' = Some(r.st.system_matrix)
    /\ self_A' = Some(r.st.A)
    /\ self_b' = Some(r.st.b)
    /\ last_call' = [op |-> op, args |-> args]
    /\ last_ret' = r.ret
    /\ last_err' = r.err
    /\ last_log' = r.log
    /\ UNCHANGED <<beam_vars, m2l_vars, ld_vars>>

\* a constructor call ends
Constructed(args, r) ==
    /\ self_inst' = r.inst
    /\ self_master_equation' = r.master_equation
    /\ self_system_matrix' = r.system_matrix
    /\ self_A' = r.A
    /\ self_b' = r.b
    /\ last_call' = [op |-> "atomicSystem", args |-> args]
    /\ last_ret' = None
    /\ last_err' = r.err
    /\ last_log' = r.log
    /\ UNCHANGED <<beam_vars, m2l_vars, ld_vars>>

-----------------------------------------------------------------------------
(* The construction specification: one atomicSystem(...) call on any of    *)
(* the elements, lines, explicit states and collision settings below.      *)

BuildElements == {"Li6", "K39", "Rb85", "Cs", "H1"}

\* explicit states: a ground state with j = 1/2 and an excited state with
\* j = 1/2, 3/2 or 5/2
CustomStates == {<<state(5, 0, 1), state(5, 1, j2)>> : j2 \in {1, 3, 5}}

BuildPDicts ==
    {Merge(PDictDefaults, d @@ g @@ c @@ t) :
        d \in {"Dline" :> x : x \in {"D1", "D2", "D3"}},
        g \in {"GammaBuf" :> R(x) : x \in 0..1},
        c \in Opt("collisions", {"decay", "dephase", "elastic"}),
        t \in Opt("symbolic_transit", {TRUE})}

InitBuild == IdleBeam /\ IdleM2L /\ IdleSys /\ IdleLindblad

Construct ==
    /\ last_call = NoCall
    /\ \E element \in BuildElements, p_dict \in BuildPDicts,
          states \in {None} \cup {Some(x) : x \in CustomStates} :
        Constructed([element |-> element, p_dict |-> p_dict,
                     states |-> states],
                    atomicSystem(element, p_dict, states))

NextBuild == Construct
SpecBuild == InitBuild /\ [][NextBuild]_vars

-----------------------------------------------------------------------------
(* The beam and the index specifications *)

InitBeam == IdleBeam /\ IdleM2L /\ IdleSys /\ IdleLindblad
NextBeam == NewBeam \/ CallSetP \/ CallSetE \/ Rebuild
SpecBeam == InitBeam /\ [][NextBeam]_vars

InitIndex == IdleBeam /\ InitM2L /\ IdleSys /\ IdleLindblad
NextIndex == CallMatrix2List \/ CallSolveCoords
SpecIndex == InitIndex /\ [][NextIndex]_vars

InitDissipator == IdleBeam /\ IdleM2L /\ IdleSys /\ InitLindblad
NextDissipator == CallLindbladDecay
SpecDissipator == InitDissipator /\ [][NextDissipator]_vars


-----------------------------------------------------------------------------
(* The atomicSystem specification: the construction of one instance, and  *)
(* then the calls of its methods in any order.                             *)

\* the instances the specification constructs: lithium (no abundance, one
\* ground sublevel) and potassium (abundance, two ground sublevels), with
\* and without a symbolic transit time, decaying collisions
SystemPDicts ==
    {Merge(PDictDefaults, ("GammaBuf" :> R(1)) @@ ("collisions" :> "decay") @@ t) :
        t \in Opt("symbolic_transit", {TRUE})}

SystemElements == {"Li6", "K39"}

\* the beams handed to the methods: a Gaussian beam given by its power over
\* two detunings, and a beam given by its amplitude with a profile that is
\* neither 'flat' nor 'gaussian'
SystemBeams ==
    {beam(kw).obj :
        kw \in {("w" :> <<0, 1>>) @@ ("P" :> R(1)) @@ ("D" :> AsRoot(R(1)))
                    @@ ("profile" :> "gaussian"),
                ("w" :> <<0>>) @@ ("E" :> AsRoot(R(1))) @@ ("D" :> AsRoot(R(1)))
                    @@ ("profile" :> "tophat")}}

\* the beams of SystemBeams with a supported profile
SupportedBeams == {b \in SystemBeams : b[1].profile \in Profiles}

\* the detunings at which the linear solve may be found singular
Singulars == {{}, {1, 2}}

TransitTypes == {"single", "integral"}

\* the numbers a segment's transmission may return, per detuning
SegmentValues(steps, len) ==
    [1..steps -> [1..len -> {R(1), <<1, 2>>}]]

\* no instance yet
Init == IdleBeam /\ IdleM2L /\ IdleSys /\ IdleLindblad

\* atomicSystem(element, E_in, p_dict): the instance is constructed
NewSystem ==
    /\ last_call = NoCall
    /\ \E element \in SystemElements, p_dict \in SystemPDicts :
        Constructed([element |-> element, p_dict |-> p_dict,
                     states |-> None],
                    atomicSystem(element, p_dict, None))

UpdateTransit ==
    /\ self_inst # None
    /\ \E mean_speed \in {R(v) : v \in 1..MaxSpeed} :
        LET u == Advance(Self, mean_speed)
        IN  Finish("update_transit", [mean_speed |-> mean_speed],
                   [st |-> u, err |-> "", ret |-> None, log |-> <<>>])

Update ==
    /\ self_inst # None
    /\ \E waist \in {R(2)} :
        LET p_dict == [Self.inst.p_dict EXCEPT !["laserWaist"] = waist]
        IN  Finish("update", [p_dict |-> p_dict],
                   [st |-> [Self EXCEPT !.inst = update(Self.inst, p_dict)],
                    err |-> "", ret |-> None, log |-> <<>>])

Solve ==
    /\ self_inst # None
    /\ \E beams \in SystemBeams, sing \in Singulars :
        Finish("solve", [beams |-> beams, sing |-> sing],
               solve(Self, beams, sing))

SolveWDoppler ==
    /\ self_inst # None
    /\ \E beams \in SystemBeams, sing \in Singulars :
        Finish("solve_w_doppler", [beams |-> beams, sing |-> sing],
               solve_w_doppler(Self, beams, sing))

OpticalDepth ==
    /\ self_inst # None
    /\ \E beams \in SystemBeams, doppler \in BOOLEAN,
       transit_type \in TransitTypes, sing \in Singulars :
        Finish("optical_depth",
               [beams |-> beams, doppler |-> doppler,
                transit_type |-> transit_type, sing |-> sing],
               optical_depth(Self, beams, doppler, transit_type, sing))

Transmission ==
    /\ self_inst # None
    /\ \E beams \in SupportedBeams, doppler \in BOOLEAN,
       transit_type \in TransitTypes, sing \in {{}} :
        Finish("transmission",
               [beams |-> beams, doppler |-> doppler,
                transit_type |-> transit_type, sing |-> sing, z |-> R(1)],
               transmission(Self, beams, R(1), doppler, transit_type, sing))

Absorption ==
    /\ self_inst # None
    /\ \E beams \in SupportedBeams, doppler \in BOOLEAN,
       transit_type \in TransitTypes, sing \in {{}} :
        Finish("absorption",
               [beams |-> beams, doppler |-> doppler,
                transit_type |-> transit_type, sing |-> sing, z |-> R(1)],
               absorption(Self, beams, R(1), doppler, transit_type, sing))

PropagatedTransmission ==
    /\ self_inst # None
    /\ \E beams \in SystemBeams, doppler \in {TRUE}, steps \in 1..MaxSteps,
       transit_type \in {"single"}, sing \in {{}} :
        \E Tseg \in IF Len(beam_iter(beams[1])) = 4
                    THEN SegmentValues(steps, Len(beams[1].w))
                    ELSE {<<>>} :
            Finish("propagated_transmission",
                   [beams |-> beams, doppler |-> doppler, steps |-> steps,
                    transit_type |-> transit_type, sing |-> sing, z |-> R(1)],
                   propagated_transmission(Self, beams, R(1), doppler, steps,
                                           transit_type, sing, Tseg))

\* atom.abundance = fraction / 100, as get_spectra assigns it to the atoms
\* it creates: here to an instance the constructor left without one
AssignAbundance ==
    /\ self_inst # None
    /\ self_inst[1].abundance = None
    /\ \E fraction \in {<<74, 10>>} :
        Finish("abundance", [fraction |-> fraction],
               [st |-> [Self EXCEPT !.inst.abundance =
                                        Some(RDiv(fraction, R(100)))],
                err |-> "", ret |-> None, log |-> <<>>])

Next ==
    \/ NewSystem
    \/ AssignAbundance
    \/ UpdateTransit
    \/ Update
    \/ Solve
    \/ SolveWDoppler
    \/ OpticalDepth
    \/ Transmission
    \/ Absorption
    \/ PropagatedTransmission

Spec == Init /\ [][Next]_vars


-----------------------------------------------------------------------------
(* Properties *)

\* the call the state records, and its arguments
Called(op) == last_call.op = op
Args == last_call.args

\* C1: propagated_transmission called with a one-element list holding a
\* beam and steps >= 1 completes and returns, for every detuning of the
\* beam, a value in [0, 1].
C1_PropagatedTransmissionInUnitInterval ==
    (Called("propagated_transmission") /\ Args.steps >= 1) =>
        /\ last_err = ""
        /\ last_ret # None
        /\ Len(last_ret[1].T) = Len(Args.beams[1].w)
        /\ \A k \in 1..Len(last_ret[1].T) :
              /\ 0 <= last_ret[1].T[k][1]
              /\ last_ret[1].T[k][1] <= last_ret[1].T[k][2]

\* C2: a beam whose power P was set under profile 'flat' or 'gaussian',
\* rebuilt from its amplitude with the same area and profile, has power P
\* again.
C2_PowerAmplitudeRoundTrip ==
    (bm_by = "P" /\ bm_back # None /\ bm_obj[1].profile \in Profiles) =>
        bm_back[1].P = bm_obj[1].P

\* C3: with explicit states, a j difference between the excited and the
\* ground reference level other than 0 or 1 ends the construction with
\* ValueError and no instance, and the Dline of a constructed instance is
\* D1 for difference 0 and D2 for difference 1.
C3_CustomStatesJDifference ==
    (Called("atomicSystem") /\ Args.states # None) =>
        LET dj2 == Args.states[1][2].j2 - Args.states[1][1].j2
        IN  /\ dj2 \notin {0, 2} =>
                (last_err = "ValueError" /\ self_inst = None)
            /\ self_inst # None =>
                self_inst[1].p_dict["Dline"] =
                    (IF dj2 = 0 THEN "D1" ELSE "D2")

\* C4: whenever an instance exists (after construction and after every
\* update_transit), b is the vector (1, 0, ..., 0) of length N^2, the first
\* equation of system_matrix is the trace constraint, and the first row of A
\* has coefficient 1 on the N diagonal coordinates and 0 on all others.
C4_TraceConstraintFirst ==
    self_inst # None =>
        LET N == self_inst[1].total_levels
        IN  /\ self_b[1] = [k \in 1..(N * N) |-> IF k = 1 THEN 1 ELSE 0]
            /\ self_system_matrix[1][<<0, 0>>].k = R(-1)
            /\ \A kl \in Idx(N) :
                  self_system_matrix[1][<<0, 0>>].lin[kl] =
                      (IF kl[1] = kl[2] THEN OneCoef ELSE ZeroCoef)
            /\ \A k \in 1..(N * N) :
                  self_A[1][1, k] = (IF k <= N THEN OneCoef ELSE ZeroCoef)

\* an update_transit call has rebuilt the system of a potassium instance
\* with symbolic transit time, and the first row is the trace constraint
C4_Witness ==
    /\ Called("update_transit")
    /\ self_inst # None
    /\ Has(self_inst[1].p_dict, "symbolic_transit")
    /\ self_inst[1].total_levels = 3
    /\ self_b[1] = <<1, 0, 0, 0, 0, 0, 0, 0, 0>>
    /\ self_A[1][1, 3] = OneCoef
    /\ self_A[1][1, 4] = ZeroCoef

\* list position (from 0) of the upper-triangle entry (i, j), i < j, of an
\* N x N matrix: after the N diagonal entries, row by row
UpperPos(i, j, N) == N + i * N - (i * (i + 1)) \div 2 + (j - i - 1)

\* C5: matrix2list of an N x N matrix has N^2 entries: the diagonal, then
\* the upper triangle row by row, then the transposed partners in the same
\* order; every matrix position appears exactly once.
C5_Matrix2ListOrder ==
    ml_out # None =>
        LET N   == ml_n[1] + ml_n[2]
            out == ml_out[1]
            T   == (N * (N - 1)) \div 2
        IN  /\ Len(out) = N * N
            /\ \A k \in 0..(N - 1) : out[k + 1] = ml_mat[k, k]
            /\ \A i \in 0..(N - 1) : \A j \in (i + 1)..(N - 1) :
                  /\ out[UpperPos(i, j, N) + 1] = ml_mat[i, j]
                  /\ out[UpperPos(i, j, N) + T + 1] = ml_mat[j, i]
            /\ \A i \in 0..(N - 1) : \A j \in (i + 1)..(N - 1) :
                  \A i2 \in 0..(N - 1) : \A j2 \in (i2 + 1)..(N - 1) :
                     (i < i2 \/ (i = i2 /\ j < j2)) =>
                         UpperPos(i, j, N) < UpperPos(i2, j2, N)
            /\ ml_kind = "symbols" =>
                  \A p \in Idx(N) :
                     Cardinality({k \in 1..Len(out) : out[k] = p}) = 1
            /\ ml_kind = "mask" =>
                  Cardinality({k \in 1..Len(out) : out[k]}) =
                      Cardinality({p \in Idx(N) : ml_mat[p]})

\* matrix2list has run on the symbol matrix of a system with four levels
C5_Witness ==
    /\ ml_out # None
    /\ ml_n = <<2, 2>>
    /\ ml_kind = "symbols"
    /\ ml_out[1][5] = <<0, 1>>
    /\ ml_out[1][11] = <<1, 0>>

\* C6: the coordinates solve sums for the susceptibility are exactly the
\* n_g * n_e coordinates rho[i, j] with i ground and j excited, each once,
\* all in the upper-triangle segment; the excited population sums exactly
\* the diagonal coordinates n_g .. n_g + n_e - 1.
C6_SolveCoordinates ==
    ml_sel # None =>
        LET n_g    == ml_n[1]
            n_e    == ml_n[2]
            N      == n_g + n_e
            r_list == matrix2list(RhoMatrix(N), N)
            chi    == ml_sel[1].chi
            pop    == ml_sel[1].pop
        IN  /\ Len(chi) = n_g * n_e
            /\ \A a \in 1..Len(chi) : \A c \in 1..Len(chi) :
                  a < c => chi[a] < chi[c]
            /\ {r_list[chi[a] + 1] : a \in 1..Len(chi)} =
                  (0..(n_g - 1)) \X (n_g..(N - 1))
            /\ \A a \in 1..Len(chi) :
                  /\ N <= chi[a]
                  /\ chi[a] < N + (N * (N - 1)) \div 2
            /\ Len(pop) = n_e
            /\ \A k \in 1..Len(pop) :
                  /\ pop[k] = n_g + k - 1
                  /\ r_list[pop[k] + 1] = <<n_g + k - 1, n_g + k - 1>>

\* the coordinates have been chosen for two ground and two excited levels
C6_Witness ==
    /\ ml_sel # None
    /\ ml_n = <<2, 2>>
    /\ ml_sel[1].chi = <<5, 6, 7, 8>>
    /\ ml_sel[1].pop = <<2, 3>>

\* C7: a solve call in which the linear solve fails at some detuning of the
\* grid ends with that error and returns nothing.
C7_SingularSolveFailsWhole ==
    Called("solve") =>
        LET w == Args.beams[1].w
        IN  (\E k \in 1..Len(w) : w[k] \in Args.sing) =>
                (last_err = "LinAlgError" /\ last_ret = None)

\* a solve call over two detunings failed although the solve at the first
\* detuning went through
C7_Witness ==
    /\ Called("solve")
    /\ Len(Args.beams[1].w) = 2
    /\ Args.beams[1].w[1] \notin Args.sing
    /\ Args.beams[1].w[2] \in Args.sing
    /\ last_err = "LinAlgError"
    /\ last_ret = None

\* the collision model that was not chosen
OtherCollisions(collisions) ==
    IF collisions = "decay" THEN "dephase" ELSE "decay"

\* C8: with GammaBuf = 0 the master equation assembled for the chosen
\* collision model equals, coefficient for coefficient, the one assembled
\* for the other model, and so does the linear system.
C8_DecayEqualsDephaseWithoutBuffer ==
    (Called("atomicSystem") /\ self_inst # None
        /\ self_inst[1].p_dict["GammaBuf"] = R(0)) =>
        LET self  == self_inst[1]
            other == MasterEquation(self,
                         OtherCollisions(self.p_dict["collisions"]), R(0),
                         Has(self.p_dict, "symbolic_transit"))
        IN  /\ self_master_equation[1] = other
            /\ self_A[1] =
                  generate_linear_system(
                      BuildSystemMatrix(other, self.p_dict,
                                        self.transit_time,
                                        self.total_levels), self.n).A

\* a potassium D2 instance was constructed with dephasing collisions and
\* GammaBuf = 0, and its master equation holds transit and decay rates
C8_Witness ==
    /\ Called("atomicSystem")
    /\ self_inst # None
    /\ self_inst[1].p_dict["GammaBuf"] = R(0)
    /\ self_inst[1].p_dict["collisions"] = "dephase"
    /\ self_inst[1].atom = "Potassium39"
    /\ self_master_equation[1][<<0, 1>>].lin[<<0, 1>>] # ZeroCoef

\* C9: optical_depth with transit_type = 'integral' on an instance without
\* 'symbolic_transit' warns, leaves the instance (transit_time, system
\* matrix, A, b) as it was, and returns what the 'single' call returns.
C9_IntegralFallsBackToSingle ==
    [][(/\ last_call'.op = "optical_depth"
        /\ last_call'.args.transit_type = "integral"
        /\ ~Has(self_inst[1].p_dict, "symbolic_transit")) =>
           LET single == optical_depth(Self, last_call'.args.beams,
                             last_call'.args.doppler, "single",
                             last_call'.args.sing)
           IN  /\ UNCHANGED sys_vars
               /\ Len(last_log') >= 3
               /\ SubSeq(last_log', 1, 3) = FallbackWarnings
               /\ last_log' = FallbackWarnings \o single.log
               /\ last_ret' = single.ret
               /\ last_err' = single.err]_vars

\* an 'integral' optical depth was asked of a potassium instance without
\* symbolic transit time, and a value came back with the three warnings
C9_Witness ==
    /\ Called("optical_depth")
    /\ Args.transit_type = "integral"
    /\ ~Has(self_inst[1].p_dict, "symbolic_transit")
    /\ last_ret # None
    /\ last_ret[1].transit_type = "single"
    /\ last_log = FallbackWarnings

\* C10: a beam constructor call with a profile other than 'flat' and
\* 'gaussian', with neither P nor E, or with neither D nor A raises and
\* produces no beam, whether the beam is given by power or by amplitude.
C10_BeamConfigurationErrors ==
    (bm_kwargs # NoKw /\ Has(bm_kwargs, "w")) =>
        LET unsupported == /\ Has(bm_kwargs, "profile")
                           /\ bm_kwargs["profile"] \notin Profiles
            no_intensity == ~Has(bm_kwargs, "P") /\ ~Has(bm_kwargs, "E")
            no_size      == ~Has(bm_kwargs, "D") /\ ~Has(bm_kwargs, "A")
        IN  (unsupported \/ no_intensity \/ no_size) => bm_obj = None

\* the element strings the constructor accepts, in lower case
SupportedSpecies ==
    {"li6", "lithium6", "li7", "lithium7", "na", "na23", "sodium", "sodium23",
     "k39", "potassium39", "k40", "potassium40", "k41", "potassium41",
     "rb85", "rubidium85", "rb87", "rubidium87",
     "cs", "cs133", "caesium", "caesium133"}

\* C11: a constructor call with an element outside the supported species,
\* or without explicit states and with a Dline other than 'D1' and 'D2',
\* ends with ValueError; nothing of the system is built: no instance, no
\* master equation, no system matrix, no A and no b.
C11_UnsupportedElementOrDlineRaises ==
    (/\ Called("atomicSystem")
     /\ \/ Lower(Args.element) \notin SupportedSpecies
        \/ (Args.states = None /\ Args.p_dict["Dline"] \notin {"D1", "D2"})) =>
        /\ last_err = "ValueError"
        /\ self_inst = None
        /\ self_master_equation = None
        /\ self_system_matrix = None
        /\ self_A = None
        /\ self_b = None

\* potassium was asked for without explicit states on the line 'D3': the
\* element was accepted, the line was not, and no instance came about
C11_Witness ==
    /\ Called("atomicSystem")
    /\ Args.element = "K39"
    /\ Args.states = None
    /\ Args.p_dict["Dline"] = "D3"
    /\ last_err = "ValueError"
    /\ self_inst = None
    /\ self_A = None

\* the level data of an instance: sublevel counts, slices, energies, dipole
\* matrix and decay rates
LevelData(self) ==
    <<self.n, self.total_levels, self.slices, self.energySeparation,
      self.dme, self.Gammas>>

\* the calls that evaluate or reconfigure without an integration over the
\* transit time
SingleTransitCall(call) ==
    \/ call.op \in {"solve", "solve_w_doppler", "update"}
    \/ /\ call.op \in {"optical_depth", "transmission", "absorption",
                       "propagated_transmission"}
       /\ call.args.transit_type = "single"

\* C12: once an instance exists, no call changes its level data or its
\* master equation; solve, solve_w_doppler, update, and optical_depth,
\* transmission and absorption with transit_type = 'single' leave
\* system_matrix, A and b as they were; system_matrix, A or b change only
\* in a step in which update_transit ran (called directly, or by the
\* 'integral' treatment of a system with symbolic transit time).
C12_OnlyUpdateTransitRecompiles ==
    [][self_inst # None =>
        /\ self_inst' # None
        /\ LevelData(self_inst'[1]) = LevelData(self_inst[1])
        /\ self_master_equation' = self_master_equation
        /\ SingleTransitCall(last_call') =>
              UNCHANGED <<self_system_matrix, self_A, self_b>>
        /\ ~UNCHANGED <<self_system_matrix, self_A, self_b>> =>
              \/ last_call'.op = "update_transit"
              \/ /\ last_call'.op \in {"optical_depth", "transmission",
                                       "absorption"}
                 /\ last_call'.args.transit_type = "integral"
                 /\ Has(self_inst[1].p_dict, "symbolic_transit")]_vars

\* update has changed the beam diameter and the transit time of a potassium
\* instance with symbolic transit time, and the system matrix is still the
\* one compiled for the transit time of the construction
C12_Witness ==
    /\ Called("update")
    /\ self_inst # None
    /\ self_inst[1].atom = "Potassium39"
    /\ Has(self_inst[1].p_dict, "symbolic_transit")
    /\ self_inst[1].beam_diameter = R(2)
    /\ self_inst[1].transit_time = R(2)
    /\ self_system_matrix[1] =
          BuildSystemMatrix(self_master_equation[1], self_inst[1].p_dict,
                            R(Micro), self_inst[1].total_levels)

\* the coefficient of x_kk in the diagonal term of level i of the
\* dissipator L_dec that the master equation of the instance subtracts
DissipatorDiagonal(i, k) ==
    LET c == self_master_equation[1][<<i, i>>].lin[<<k, k>>]
    IN  Rate(RNeg(c.re), RNeg(c.rt))

\* the sum of the rate matrices handed to Lindblad_decay for an instance
DecayRates(self) ==
    LET base == MatAdd(g_dec(self),
                       g_transit(self, Has(self.p_dict, "symbolic_transit")))
    IN  IF self.p_dict["collisions"] = "decay"
        THEN MatAdd(base, g_col_decay(self, self.p_dict["GammaBuf"]))
        ELSE base

\* the rate at which the excited level e is to relax into the ground level
\* g: spontaneous decay, transit, and decaying collisions
RelaxationRate(self, g, e) ==
    RateAdd(Rate(RAdd(self.Gammas[g, e - self.n[1]],
                      IF self.p_dict["collisions"] = "decay"
                      THEN RDiv(self.p_dict["GammaBuf"], R(self.n[1]))
                      ELSE R(0)),
                 R(0)),
            TransitRate(self, Has(self.p_dict, "symbolic_transit")))

\* C13 (as the code has it): entry [i, j] of the rate matrices is the rate
\* of transfer from level i to level j.  In the dissipator of a constructed
\* instance the entry [i, j], i # j, is the gain of level j proportional to
\* x_ii, and level i loses in proportion to x_ii the sum of the entries
\* [i, m], m # i; the relaxation of an excited level e into a ground level g
\* is the gain of g proportional to x_ee, and no excited level gains in
\* proportion to a ground population.
C13_RateFromRowToColumn ==
    (Called("atomicSystem") /\ self_inst # None) =>
        LET self  == self_inst[1]
            N     == self.total_levels
            ng    == self.n[1]
            rates == DecayRates(self)
        IN  /\ \A i \in 0..(N - 1) : \A j \in 0..(N - 1) :
                  i # j => DissipatorDiagonal(j, i) = rates[i, j]
            /\ \A i \in 0..(N - 1) :
                  DissipatorDiagonal(i, i) =
                      RateNeg(RateSum([m \in 0..(N - 1) |->
                                  IF m = i THEN ZeroRate ELSE rates[i, m]],
                              0, N - 1))
            /\ \A g \in 0..(ng - 1) : \A e \in ng..(N - 1) :
                  /\ DissipatorDiagonal(g, e) = RelaxationRate(self, g, e)
                  /\ DissipatorDiagonal(e, g) = ZeroRate

\* C13 (as stated): entry [i, j] is the rate of transfer from level j to
\* level i: it is the gain of level i proportional to x_jj.
C13_RateFromColumnToRow ==
    (Called("atomicSystem") /\ self_inst # None) =>
        LET self  == self_inst[1]
            N     == self.total_levels
            rates == DecayRates(self)
        IN  \A i \in 0..(N - 1) : \A j \in 0..(N - 1) :
               i # j => DissipatorDiagonal(i, j) = rates[i, j]

\* a potassium D2 instance (two ground, two excited levels) was constructed
\* with decaying collisions: the excited level 3 relaxes into the ground
\* level 0 at a nonzero rate, and level 3 gains nothing from level 0
C13_Witness ==
    /\ Called("atomicSystem")
    /\ self_inst # None
    /\ self_inst[1].n = <<2, 2>>
    /\ self_inst[1].p_dict["collisions"] = "decay"
    /\ self_inst[1].p_dict["GammaBuf"] = R(1)
    /\ DecayRates(self_inst[1])[3, 0] # ZeroRate
    /\ DecayRates(self_inst[1])[0, 3] = ZeroRate
    /\ DissipatorDiagonal(0, 3) = DecayRates(self_inst[1])[3, 0]
    /\ DissipatorDiagonal(3, 0) = ZeroRate

\* a rate matrix with its diagonal entries set to zero
WithoutDiagonal(rates) ==
    [ij \in DOMAIN rates |-> IF ij[1] = ij[2] THEN ZeroRate ELSE rates[ij]]

\* C14: for every rate matrix, Lindblad_decay gives the diagonal term i the
\* coefficient sum_j (rates[j,i] [k = j] - rates[i,j] [k = i]) on x_kk and
\* none on a coherence, and the off-diagonal term (i, j) the coefficient
\* -0.5 sum_k (rates[i,k] + rates[j,k]) on x_ij and none elsewhere; the
\* diagonal terms summed over the levels vanish; the entries rates[i,i]
\* leave the diagonal terms as they are and enter the off-diagonal ones only.
C14_LindbladDecayFormula ==
    ld_L # None =>
        LET N  == ld_N
            L  == ld_L[1]
            Lv == 0..(N - 1)
            L0 == Lindblad_decay(WithoutDiagonal(ld_rates), N)
        IN  /\ \A i \in Lv : \A kl \in Idx(N) :
                  L[<<i, i>>][kl] =
                      IF kl[1] # kl[2] THEN ZeroRate
                      ELSE RateSum([j \in Lv |->
                               RateSub(IF kl[1] = j THEN ld_rates[j, i]
                                       ELSE ZeroRate,
                                       IF kl[1] = i THEN ld_rates[i, j]
                                       ELSE ZeroRate)], 0, N - 1)
            /\ \A ij \in Idx(N) : \A kl \in Idx(N) :
                  ij[1] # ij[2] =>
                      L[ij][kl] =
                          IF kl # ij THEN ZeroRate
                          ELSE RateSub(ZeroRate, RateHalf(
                                   RateSum([k \in Lv |->
                                       RateAdd(ld_rates[ij[1], k],
                                               ld_rates[ij[2], k])],
                                       0, N - 1)))
            /\ \A kl \in Idx(N) :
                  RateSum([i \in Lv |-> L[<<i, i>>][kl]], 0, N - 1) = ZeroRate
            /\ \A i \in Lv : L0[<<i, i>>] = L[<<i, i>>]
            /\ \A ij \in Idx(N) :
                  ij[1] # ij[2] =>
                      L[ij][ij] =
                          RateSub(L0[ij][ij],
                                  RateHalf(RateAdd(ld_rates[ij[1], ij[1]],
                                                   ld_rates[ij[2], ij[2]])))

\* Lindblad_decay has run on a two-level rate matrix that is not symmetric
\* and has a nonzero diagonal entry: level 1 gains what level 0 loses
C14_Witness ==
    /\ ld_L # None
    /\ ld_N = 2
    /\ ld_rates[0, 1] = Rate(R(2), R(1))
    /\ ld_rates[1, 0] = ZeroRate
    /\ ld_rates[0, 0] = Rate(R(1), R(0))
    /\ ld_L[1][<<1, 1>>][<<0, 0>>] = Rate(R(2), R(1))
    /\ ld_L[1][<<0, 0>>][<<0, 0>>] = Rate(R(-2), R(-1))

\* C15: an instance constructed with magnetic field exactly 0 has had its
\* sublevels diagonalised with the small nonzero offset in place of 0.
C15_ZeroFieldPerturbed ==
    (/\ Called("atomicSystem")
     /\ self_inst # None
     /\ Args.p_dict["Bfield"] = R(0)) =>
        /\ self_inst[1].H_Bfield # R(0)
        /\ self_inst[1].H_Bfield = Hamiltonian_B(Args.p_dict["Bfield"])

\* C16: after update_transit the coefficients A are those of the master
\* equation assembled with the transit rate 1 / (2 * transit_time * n[0]) of
\* the new transit_time, with and without 'symbolic_transit'.
C16_UpdateTransitRatesFollow ==
    Called("update_transit") =>
        LET self == self_inst[1]
            me   == MasterEquation(self, self.p_dict["collisions"],
                                   self.p_dict["GammaBuf"],
                                   Has(self.p_dict, "symbolic_transit"))
        IN  self_A[1] =
                generate_linear_system(
                    BuildSystemMatrix(me, self.p_dict, self.transit_time,
                                      self.total_levels), self.n).A

\* the transit time of the instance self for the transverse speed v
TransitTimeAt(self, v) ==
    TimesMicro(getTransitTime(self.atom, self.DoppT, self.beam_diameter,
                              Some(v)))

\* the coefficients A compiled from a master equation for transit time tt
CompiledFor(self, master_equation, tt) ==
    generate_linear_system(
        BuildSystemMatrix(master_equation, self.p_dict, tt,
                          self.total_levels), self.n).A

\* C17: an optical_depth call with transit_type = 'integral' that returns
\* on an instance with 'symbolic_transit' leaves the transit_time of the
\* last speed sample on the instance, and the system_matrix and A compiled
\* for it; a solve call that returns has used the A it found and leaves it.
C17_IntegralLeavesLastSample ==
    [][/\ (/\ last_call'.op = "optical_depth"
           /\ last_call'.args.transit_type = "integral"
           /\ Has(self_inst[1].p_dict, "symbolic_transit")
           /\ last_err' = "") =>
              LET self == self_inst[1]
                  tt   == TransitTimeAt(self, IntegralSpeeds[NSamples])
              IN  /\ self_inst'[1].transit_time = tt
                  /\ self_system_matrix'[1] =
                        BuildSystemMatrix(self_master_equation[1],
                                          self.p_dict, tt, self.total_levels)
                  /\ self_A'[1] = CompiledFor(self, self_master_equation[1], tt)
       /\ (last_call'.op = "solve" /\ last_err' = "") =>
              /\ last_ret'[1].evaluator =
                    Evaluator(self_A[1], self_inst[1].total_levels)
              /\ self_A' = self_A]_vars

\* an 'integral' optical depth has returned on a potassium instance with
\* symbolic transit time whose beam diameter had been changed: A is the one
\* of the last speed sample, not the one of the first
C17_Witness ==
    /\ Called("optical_depth")
    /\ Args.transit_type = "integral"
    /\ last_ret # None
    /\ self_inst[1].atom = "Potassium39"
    /\ Has(self_inst[1].p_dict, "symbolic_transit")
    /\ self_inst[1].beam_diameter = R(2)
    /\ self_inst[1].transit_time =
          TransitTimeAt(self_inst[1], IntegralSpeeds[NSamples])
    /\ self_A[1] = CompiledFor(self_inst[1], self_master_equation[1],
                               self_inst[1].transit_time)
    /\ self_A[1] # CompiledFor(self_inst[1], self_master_equation[1],
                               TransitTimeAt(self_inst[1], IntegralSpeeds[1]))

\* the calls that go through solve
SolvingCalls ==
    {"solve", "solve_w_doppler", "optical_depth", "transmission",
     "absorption", "propagated_transmission"}

\* C18: the instance a constructor call leaves has an abundance exactly
\* when its element is a potassium or rubidium isotope; as long as an
\* instance has none, every call that goes through solve raises and
\* returns nothing, and solve itself raises AttributeError whenever the
\* linear solve went through.
C18_AbundanceOnlyForKAndRb ==
    self_inst # None =>
        /\ Called("atomicSystem") =>
              (self_inst[1].abundance # None <=>
                  Lower(self_inst[1].element) \in
                      {"k39", "potassium39", "k40", "potassium40",
                       "k41", "potassium41", "rb85", "rubidium85",
                       "rb87", "rubidium87"})
        /\ (self_inst[1].abundance = None /\ last_call.op \in SolvingCalls) =>
              /\ last_err # ""
              /\ last_ret = None
              /\ (Called("solve") /\ ~HitsSingular(Args.beams[1].w, Args.sing))
                    => last_err = "AttributeError"

\* solve was called on a lithium instance, which has no abundance, with a
\* linear solve that went through, and raised AttributeError
C18_Witness ==
    /\ Called("solve")
    /\ self_inst # None
    /\ self_inst[1].element = "Li6"
    /\ self_inst[1].abundance = None
    /\ Args.sing = {}
    /\ last_err = "AttributeError"
    /\ last_ret = None

=============================================================================
